---- MODULE Spec2Model ----
(***************************************************************************)
(* Model of app.py, the Streamlit script that expands a JSON template once *)
(* per data row of an Excel sheet, writes one document per row into the    *)
(* shared directory "output_json" and offers them as one ZIP archive.      *)
(*                                                                         *)
(* Text is modelled as sequences of one-character strings, so that         *)
(* str.strip, str.lower, str.startswith, the regular expression of         *)
(* re.sub and the JSON serialisation act on characters as they do in       *)
(* Python.  A JSON value is a record [t, v]: t is the JSON type and v the  *)
(* characters of a string / number / literal, the items of a list, or the  *)
(* <<key, value>> pairs of an object in insertion order.                   *)
(***************************************************************************)
EXTENDS Integers, Sequences, FiniteSets, TLC

-----------------------------------------------------------------------------
(* Characters and Python string methods                                    *)

UpperChars == <<"A","B","C","D","E","F","G","H","I","J","K","L","M",
                "N","O","P","Q","R","S","T","U","V","W","X","Y","Z">>

LowerChars == <<"a","b","c","d","e","f","g","h","i","j","k","l","m",
                "n","o","p","q","r","s","t","u","v","w","x","y","z">>

DigitChars == <<"0","1","2","3","4","5","6","7","8","9">>

Range(f) == {f[i] : i \in DOMAIN f}

\* the character class [A-Za-z0-9] of the regular expression at line 205
AlnumClass == Range(UpperChars) \cup Range(LowerChars) \cup Range(DigitChars)

\* the character class [A-Za-z0-9_] of the token pattern of the specification
WordClass == AlnumClass \cup {"_"}

\* characters str.strip() removes (of the modelled alphabet)
Whitespace == {" "}

\* str.lower() on one character
LowerChar(c) ==
  IF c \in Range(UpperChars)
    THEN LowerChars[CHOOSE i \in DOMAIN UpperChars : UpperChars[i] = c]
    ELSE c

\* str.lower()
lower(s) == [i \in DOMAIN s |-> LowerChar(s[i])]

\* str.strip(): drop leading and trailing whitespace
strip(s) ==
  LET nonws == {i \in DOMAIN s : s[i] \notin Whitespace}
      Min(S) == CHOOSE m \in S : \A n \in S : m <= n
      Max(S) == CHOOSE m \in S : \A n \in S : m >= n
  IN  IF nonws = {} THEN << >> ELSE SubSeq(s, Min(nonws), Max(nonws))

\* str.startswith("%") and str.endswith("%")
startswith_pct(s) == Len(s) >= 1 /\ s[1] = "%"

endswith_pct(s) == Len(s) >= 1 /\ s[Len(s)] = "%"

\* str(i) for a small non-negative integer
RECURSIVE str_int(_)
str_int(n) ==
  IF n < 10 THEN <<DigitChars[n + 1]>>
            ELSE str_int(n \div 10) \o <<DigitChars[(n % 10) + 1]>>

-----------------------------------------------------------------------------
(* JSON values                                                              *)

Str(s)  == [t |-> "str",  v |-> s]

Num(s)  == [t |-> "num",  v |-> s]

Bool(s) == [t |-> "bool", v |-> s]

Null    == [t |-> "null", v |-> <<"n","u","l","l">>]

List(items) == [t |-> "list", v |-> items]

Obj(pairs)  == [t |-> "obj",  v |-> pairs]

IsStr(x)  == x.t = "str"

IsList(x) == x.t = "list"

IsObj(x)  == x.t = "obj"

\* key in dict
HasKey(o, k) == \E i \in DOMAIN o.v : o.v[i][1] = k

\* dict[key] of a key that is present
Get(o, k) == o.v[CHOOSE i \in DOMAIN o.v : o.v[i][1] = k][2]

\* dict[key] = val: an existing key keeps its position, a new key is appended
Put(o, k, val) ==
  IF HasKey(o, k)
    THEN Obj([i \in DOMAIN o.v |-> IF o.v[i][1] = k THEN <<k, val>> ELSE o.v[i]])
    ELSE Obj(Append(o.v, <<k, val>>))

-----------------------------------------------------------------------------
(* json.dumps(d, ensure_ascii=False): compact text with ", " and ": "       *)

\* a character inside a JSON string literal: quote and backslash are escaped
EscapeChar(c) ==
  IF c = "\"" THEN <<"\\", "\"">>
  ELSE IF c = "\\" THEN <<"\\", "\\">>
  ELSE <<c>>

RECURSIVE EscapeStr(_)
EscapeStr(s) ==
  IF s = << >> THEN << >> ELSE EscapeChar(Head(s)) \o EscapeStr(Tail(s))

Quote(s) == <<"\"">> \o EscapeStr(s) \o <<"\"">>

RECURSIVE dumps(_)
RECURSIVE DumpItems(_)
RECURSIVE DumpPairs(_)
DumpItems(items) ==
  IF items = << >> THEN << >>
  ELSE dumps(Head(items)) \o
       (IF Tail(items) = << >> THEN << >> ELSE <<",", " ">> \o DumpItems(Tail(items)))

DumpPairs(pairs) ==
  IF pairs = << >> THEN << >>
  ELSE Quote(Head(pairs)[1]) \o <<":", " ">> \o dumps(Head(pairs)[2]) \o
       (IF Tail(pairs) = << >> THEN << >> ELSE <<",", " ">> \o DumpPairs(Tail(pairs)))

dumps(x) ==
  IF IsStr(x) THEN Quote(x.v)
  ELSE IF IsList(x) THEN <<"[">> \o DumpItems(x.v) \o <<"]">>
  ELSE IF IsObj(x) THEN <<"{">> \o DumpPairs(x.v) \o <<"}">>
  ELSE x.v

-----------------------------------------------------------------------------
(* re.sub(r"%[A-Za-z0-9]+%", "", text): leftmost non-overlapping matches    *)

\* length of the run of characters of class cls that starts at position i
RECURSIVE RunLen(_, _, _)
RunLen(s, i, cls) ==
  IF i <= Len(s) /\ s[i] \in cls THEN 1 + RunLen(s, i + 1, cls) ELSE 0

\* length of the match of %cls+% at position i, 0 when there is none
MatchLen(s, i, cls) ==
  IF i <= Len(s) /\ s[i] = "%"
    THEN LET n == RunLen(s, i + 1, cls)
         IN  IF n >= 1 /\ i + n + 1 <= Len(s) /\ s[i + n + 1] = "%"
               THEN n + 2 ELSE 0
    ELSE 0

\* position of the first "%" at or after position i, Len(s) + 1 when there is none
NextPct(s, i) ==
  LET P == {k \in i..Len(s) : s[k] = "%"}
  IN  IF P = {} THEN Len(s) + 1 ELSE CHOOSE k \in P : \A k2 \in P : k <= k2

\* the scan of re.sub from position i: a match is dropped and the scan resumes
\* after it; otherwise the text up to the next "%" is copied
RECURSIVE SubFrom(_, _, _)
SubFrom(s, i, cls) ==
  IF i > Len(s) THEN << >>
  ELSE LET n == MatchLen(s, i, cls)
       IN  IF n > 0 THEN SubFrom(s, i + n, cls)
                    ELSE SubSeq(s, i, NextPct(s, i + 1) - 1)
                           \o SubFrom(s, NextPct(s, i + 1), cls)

re_sub(text) == SubFrom(text, 1, AlnumClass)

\* re.search of the token pattern of the specification, %[A-Za-z0-9_]+%
ContainsToken(text) == \E i \in DOMAIN text : MatchLen(text, i, WordClass) > 0

\* re.fullmatch of the token pattern of the specification
IsToken(s) == Len(s) >= 3 /\ MatchLen(s, 1, WordClass) = Len(s)

-----------------------------------------------------------------------------
(* json.loads(text)                                                         *)

RECURSIVE SkipWs(_, _)
SkipWs(s, i) == IF i <= Len(s) /\ s[i] = " " THEN SkipWs(s, i + 1) ELSE i

\* the string literal whose opening quote precedes position i
RECURSIVE ScanStr(_, _, _)
ScanStr(s, i, acc) ==
  IF s[i] = "\"" THEN [val |-> acc, next |-> i + 1]
  ELSE IF s[i] = "\\" THEN ScanStr(s, i + 2, Append(acc, s[i + 1]))
  ELSE ScanStr(s, i + 1, Append(acc, s[i]))

\* a number or one of the literals true, false, null
RECURSIVE ScanLiteral(_, _, _)
ScanLiteral(s, i, acc) ==
  IF i > Len(s) \/ s[i] \in {",", "]", "}", " "}
    THEN [val |-> (IF acc[1] \in {"t", "f"} THEN Bool(acc)
                   ELSE IF acc[1] = "n" THEN Null
                   ELSE Num(acc)),
          next |-> i]
    ELSE ScanLiteral(s, i + 1, Append(acc, s[i]))

\* dict construction while parsing: a repeated key keeps its first position
\* and takes the last value
DictSet(pairs, k, val) ==
  IF \E j \in DOMAIN pairs : pairs[j][1] = k
    THEN [j \in DOMAIN pairs |-> IF pairs[j][1] = k THEN <<k, val>> ELSE pairs[j]]
    ELSE Append(pairs, <<k, val>>)

RECURSIVE ParseValue(_, _)
RECURSIVE ParseItems(_, _, _)
RECURSIVE ParsePairs(_, _, _)
ParseItems(s, i, acc) ==
  LET r    == ParseValue(s, SkipWs(s, i))
      j    == SkipWs(s, r.next)
      acc2 == Append(acc, r.val)
  IN  IF s[j] = "," THEN ParseItems(s, j + 1, acc2)
                    ELSE [val |-> List(acc2), next |-> j + 1]

ParsePairs(s, i, acc) ==
  LET k    == ScanStr(s, SkipWs(s, i) + 1, << >>)
      c    == SkipWs(s, k.next)
      r    == ParseValue(s, SkipWs(s, c + 1))
      j    == SkipWs(s, r.next)
      acc2 == DictSet(acc, k.val, r.val)
  IN  IF s[j] = "," THEN ParsePairs(s, j + 1, acc2)
                    ELSE [val |-> Obj(acc2), next |-> j + 1]

ParseValue(s, i) ==
  IF s[i] = "\"" THEN LET r == ScanStr(s, i + 1, << >>)
                      IN  [val |-> Str(r.val), next |-> r.next]
  ELSE IF s[i] = "["
    THEN IF s[SkipWs(s, i + 1)] = "]"
           THEN [val |-> List(<< >>), next |-> SkipWs(s, i + 1) + 1]
           ELSE ParseItems(s, i + 1, << >>)
  ELSE IF s[i] = "{"
    THEN IF s[SkipWs(s, i + 1)] = "}"
           THEN [val |-> Obj(<< >>), next |-> SkipWs(s, i + 1) + 1]
           ELSE ParsePairs(s, i + 1, << >>)
  ELSE ScanLiteral(s, i, << >>)

loads(text) == ParseValue(text, SkipWs(text, 1)).val

-----------------------------------------------------------------------------
(* Field names the script reads                                             *)

k_examples   == <<"e","x","a","m","p","l","e","s">>

k_processes  == <<"p","r","o","c","e","s","s","e","s">>

k_materials  == <<"m","a","t","e","r","i","a","l","s">>

k_properties == <<"p","r","o","p","e","r","t","i","e","s">>

k_amount     == <<"a","m","o","u","n","t">>

k_value      == <<"v","a","l","u","e">>

k_name       == <<"n","a","m","e">>

-----------------------------------------------------------------------------
(* The Excel sheet: raw is the sequence of its rows, each row the sequence  *)
(* of its cells as text (dtype=str, fillna("")), all rows of one width.     *)

Cols(raw) == DOMAIN raw[1]

\* validate_excel: the five checks that append to errors
TooFewRows(raw) == Len(raw) < 5

InvalidPlaceholders(raw) ==
  /\ Len(raw) >= 3
  /\ \E c \in Cols(raw) : ~startswith_pct(raw[3][c]) \/ ~endswith_pct(raw[3][c])

EmptyAbbr(raw) ==
  /\ Len(raw) >= 4
  /\ \E c \in Cols(raw) : strip(raw[4][c]) = << >> \/ lower(raw[4][c]) = <<"n","a","n">>

ColumnCountMismatch(raw) == Len(raw) >= 3 /\ Len(raw[2]) # Len(raw[3])

EmptyDataRow(raw) ==
  /\ Len(raw) >= 5
  /\ \E r \in 5..Len(raw) : \A c \in Cols(raw) : strip(raw[r][c]) = << >>

\* validate_excel(raw): TRUE when errors is empty
validate_excel(raw) ==
  ~(\/ TooFewRows(raw)
    \/ InvalidPlaceholders(raw)
    \/ EmptyAbbr(raw)
    \/ ColumnCountMismatch(raw)
    \/ EmptyDataRow(raw))

labels(raw) == [c \in Cols(raw) |-> strip(raw[3][c])]

abbrs(raw) == [c \in Cols(raw) |-> strip(raw[4][c])]

\* data = raw.iloc[4:].reset_index(drop=True): data row idx (0-based) is raw[idx + 5]
data(raw) == [i \in 1..(Len(raw) - 4) |-> raw[i + 4]]

\* {lab: abbr for lab, abbr in zip(labels, abbrs) if lab and abbr}: of two
\* columns with the same label the later one wins
BuildMapping(raw) ==
  LET used == {c \in Cols(raw) : labels(raw)[c] # << >> /\ abbrs(raw)[c] # << >>}
      last(lab) == CHOOSE c \in used :
                     /\ labels(raw)[c] = lab
                     /\ \A c2 \in used : labels(raw)[c2] = lab => c2 <= c
  IN  [lab \in {labels(raw)[c] : c \in used} |-> abbrs(raw)[last(lab)]]

\* row[col] if col in row else dflt, for a sheet whose abbreviations are distinct
RowCell(raw, row, col, dflt) ==
  IF \E c \in Cols(raw) : abbrs(raw)[c] = col
    THEN row[CHOOSE c \in Cols(raw) : abbrs(raw)[c] = col]
    ELSE dflt

-----------------------------------------------------------------------------
(* One iteration of the row loop, lines 177-206                             *)

\* bool(x) is False: None, "", 0, 0.0, False, [], {}
Falsy(x) ==
  \/ x.t = "null"
  \/ x.t \in {"str", "list", "obj"} /\ x.v = << >>
  \/ x.t = "bool" /\ x.v = <<"f","a","l","s","e">>
  \/ x.t = "num" /\ \A i \in DOMAIN x.v : x.v[i] \in {"0", ".", "-"}

\* for m in x: m.get(...) raises unless every element iterated is a dict
IterableOfDicts(x) ==
  \/ IsList(x) /\ \A i \in DOMAIN x.v : IsObj(x.v[i])
  \/ x.t \in {"str", "obj"} /\ x.v = << >>

\* d["examples"][0]["processes"][0]["materials"] evaluates without KeyError,
\* IndexError or TypeError
PathOK(d) ==
  /\ IsObj(d) /\ HasKey(d, k_examples)
  /\ LET ex == Get(d, k_examples)
     IN  /\ IsList(ex) /\ Len(ex.v) >= 1
         /\ IsObj(ex.v[1]) /\ HasKey(ex.v[1], k_processes)
         /\ LET ps == Get(ex.v[1], k_processes)
            IN  /\ IsList(ps) /\ Len(ps.v) >= 1
                /\ IsObj(ps.v[1]) /\ HasKey(ps.v[1], k_materials)

Processes(d) == Get(Get(d, k_examples).v[1], k_processes)

\* fill_properties(props, ...) returns without AttributeError
PropsOK(o) ==
  HasKey(o, k_properties) /\ IsList(Get(o, k_properties))
    => \A i \in DOMAIN Get(o, k_properties).v : IsObj(Get(o, k_properties).v[i])

\* the row iteration reaches line 208 without raising
RowOK(d) ==
  /\ PathOK(d)
  /\ IterableOfDicts(Get(Processes(d).v[1], k_materials))
  /\ \A j \in DOMAIN Processes(d).v :
        IsObj(Processes(d).v[j]) /\ PropsOK(Processes(d).v[j])
  /\ HasKey(d, k_materials) =>
        /\ IterableOfDicts(Get(d, k_materials))
        /\ IsList(Get(d, k_materials)) =>
              \A j \in DOMAIN Get(d, k_materials).v : PropsOK(Get(d, k_materials).v[j])

\* lines 182-192: the material is appended to new_materials
keep_material(m, raw, row, mapping) ==
  IF HasKey(m, k_amount) /\ IsStr(Get(m, k_amount))
       /\ Get(m, k_amount).v \in DOMAIN mapping
    THEN strip(RowCell(raw, row, mapping[Get(m, k_amount).v], << >>))
           \notin {<< >>, <<"n","o","n","e">>, <<"0">>, <<"0",".","0">>}
    ELSE ~(\/ ~HasKey(m, k_amount)
           \/ Falsy(Get(m, k_amount))
           \/ IsStr(Get(m, k_amount)) /\ startswith_pct(Get(m, k_amount).v))

\* line 189: m["amount"] = v
set_amount(m, raw, row, mapping) ==
  IF HasKey(m, k_amount) /\ IsStr(Get(m, k_amount))
       /\ Get(m, k_amount).v \in DOMAIN mapping
    THEN Put(m, k_amount,
             Str(strip(RowCell(raw, row, mapping[Get(m, k_amount).v], << >>))))
    ELSE m

\* lines 180-193
RECURSIVE new_materials(_, _, _, _)
new_materials(ms, raw, row, mapping) ==
  IF ms = << >> THEN << >>
  ELSE (IF keep_material(Head(ms), raw, row, mapping)
          THEN <<set_amount(Head(ms), raw, row, mapping)>>
          ELSE << >>)
       \o new_materials(Tail(ms), raw, row, mapping)

\* fill_property with the comparison against "none" made case-sensitive
fill_property_nolower(prop, raw, row, mapping) ==
  IF HasKey(prop, k_value) /\ IsStr(Get(prop, k_value))
       /\ Get(prop, k_value).v \in DOMAIN mapping
    THEN LET val == RowCell(raw, row, mapping[Get(prop, k_value).v], << >>)
         IN  IF strip(val) \in {<< >>, <<"n","o","n","e">>}
               THEN Put(prop, k_value, Str(<< >>))
               ELSE Put(prop, k_value, Str(val))
    ELSE prop

\* lines 124-131: one element of a properties list
fill_property(prop, raw, row, mapping) ==
  IF HasKey(prop, k_value) /\ IsStr(Get(prop, k_value))
       /\ Get(prop, k_value).v \in DOMAIN mapping
    THEN LET val == RowCell(raw, row, mapping[Get(prop, k_value).v], << >>)
         IN  IF lower(strip(val)) \in {<< >>, <<"n","o","n","e">>}
               THEN Put(prop, k_value, Str(<< >>))
               ELSE Put(prop, k_value, Str(val))
    ELSE prop

\* fill_properties(o.get("properties", []), row, mapping), as the new value of o
fill_properties(o, raw, row, mapping) ==
  IF HasKey(o, k_properties) /\ IsList(Get(o, k_properties))
    THEN Put(o, k_properties,
             List([i \in DOMAIN Get(o, k_properties).v |->
                     fill_property(Get(o, k_properties).v[i], raw, row, mapping)]))
    ELSE o

\* lines 180-201 on the copy d: materials of the first process filtered, then
\* the properties of every process of the first example and of every
\* root-level material filled
Substitute(d, raw, row, mapping) ==
  LET ps   == Processes(d)
      p1   == Put(ps.v[1], k_materials,
                  List(new_materials(Get(ps.v[1], k_materials).v, raw, row, mapping)))
      ps2  == List([j \in DOMAIN ps.v |->
                      fill_properties(IF j = 1 THEN p1 ELSE ps.v[j], raw, row, mapping)])
      ex   == Get(d, k_examples)
      ex2  == List([j \in DOMAIN ex.v |->
                      IF j = 1 THEN Put(ex.v[1], k_processes, ps2) ELSE ex.v[j]])
      d2   == Put(d, k_examples, ex2)
  IN  IF HasKey(d2, k_materials) /\ IsList(Get(d2, k_materials))
        THEN Put(d2, k_materials,
                 List([j \in DOMAIN Get(d2, k_materials).v |->
                         fill_properties(Get(d2, k_materials).v[j], raw, row, mapping)]))
        ELSE d2

\* lines 204-206: serialise, delete what matches %[A-Za-z0-9]+%, parse again
StripResidual(d) == loads(re_sub(dumps(d)))

\* the document written for one row
RowDoc(tpl, raw, row, mapping) == StripResidual(Substitute(tpl, raw, row, mapping))

\* TemplateAfterRow without the deep copy: d is json_template itself, and the
\* assignments of lines 189, 194, 129 and 131 land in it
TemplateAfterRow_shared(tpl, raw, row, mapping) == Substitute(tpl, raw, row, mapping)

\* line 177: d = deepcopy(json_template); every assignment of the iteration
\* goes to the copy, so json_template is what it was
TemplateAfterRow(tpl, raw, row, mapping) == tpl

-----------------------------------------------------------------------------
(* Paths and file names                                                     *)

\* line 62
output_dir == <<"o","u","t","p","u","t","_","j","s","o","n">>

\* position of the last occurrence of character c in s, 0 when there is none
LastIndex(s, c) ==
  IF \E i \in DOMAIN s : s[i] = c
    THEN CHOOSE i \in DOMAIN s : s[i] = c /\ \A j \in DOMAIN s : s[j] = c => j <= i
    ELSE 0

\* os.path.basename(path)
basename(path) == SubSeq(path, LastIndex(path, "/") + 1, Len(path))

\* os.path.splitext(name)[0]: the extension starts at the last dot, unless the
\* name has no dot or only a leading one
splitext0(name) ==
  IF LastIndex(name, ".") > 1 THEN SubSeq(name, 1, LastIndex(name, ".") - 1) ELSE name

\* line 144
json_filename(name) == splitext0(basename(name))

\* FileName with the rows numbered from 1
FileName_onebased(base, i) ==
  base \o <<"_">> \o str_int(i + 1) \o <<".","j","s","o","n">>

\* f"{json_filename}_{idx}.json"
FileName(base, i) == base \o <<"_">> \o str_int(i) \o <<".","j","s","o","n">>

\* line 209: os.path.join(output_dir, f"{json_filename}_{idx}.json")
output_path(base, i) == output_dir \o <<"/">> \o FileName(base, i)

-----------------------------------------------------------------------------
(* Inputs: the uploaded templates and sheets                                *)

\* largest number of data rows of an uploaded sheet
MaxRows == 2

tok_A == <<"%","A","%">>

tok_B == <<"%","B","%">>

tok_V == <<"%","V","%">>

tok_U == <<"%","U","%">>

Material(name, amount) == Obj(<< <<k_name, Str(name)>>, <<k_amount, amount>> >>)

\* a template with every kind of node the script distinguishes
TemplateFull ==
  Obj(<< <<k_name, Str(<<"m","i","x"," ","%","w","%"," ","r","a","t","i","o">>)>>,
         <<<<"m","e","m","o">>, Str(<<"%","X","_","1","%">>)>>,
         <<<<"c","o","u","n","t">>, Num(<<"3">>)>>,
         <<k_examples, List(<<
            Obj(<< <<k_processes, List(<<
               Obj(<< <<k_materials, List(<<
                         Material(<<"r","e","s","i","n">>, Str(tok_A)),
                         Obj(<< <<k_name, Str(<<"h","a","r","d","e","n","e","r">>)>>,
                                <<k_amount, Str(tok_B)>>,
                                <<<<"u","n","i","t">>, Str(tok_U)>> >>),
                         Obj(<< <<k_name, Str(<<"s","o","l","v","e","n","t">>)>>,
                                <<<<"u","n","i","t">>, Str(tok_U)>> >>),
                         Material(<<"f","i","l","l","e","r">>, Num(<<"2">>)) >>)>>,
                      <<k_properties, List(<<
                         Obj(<< <<k_name, Str(<<"T","g">>)>>,
                                <<k_value, Str(tok_V)>>,
                                <<<<"u","n","i","t">>, Str(tok_U)>> >>),
                         Obj(<< <<k_name, Str(<<"n","o","t","e">>)>>,
                                <<<<"u","n","i","t">>, Str(tok_U)>> >>) >>)>> >>) >>)>> >>) >>)>>,
         <<k_materials, List(<<
            Obj(<< <<k_name, Str(<<"r","e","s","i","n">>)>>,
                   <<k_properties, List(<<
                      Obj(<< <<k_name, Str(<<"M","w">>)>>,
                             <<k_value, Str(tok_V)>> >>) >>)>> >>) >>)>> >>)

\* two processes, no root-level materials, a string in which deleting one
\* match leaves another token behind
TemplateTwoProc ==
  Obj(<< <<k_name, Str(<<"%","%","A","%","B","%">>)>>,
         <<<<"f","l","a","g">>, Bool(<<"t","r","u","e">>)>>,
         <<k_examples, List(<<
            Obj(<< <<k_processes, List(<<
               Obj(<< <<k_materials, List(<<
                         Material(<<"r","e","s","i","n">>, Str(tok_A)),
                         Material(<<"w","a","t","e","r">>, Num(<<"0">>)) >>)>> >>),
               Obj(<< <<k_materials, List(<<
                         Material(<<"d","y","e">>, Str(tok_B)) >>)>>,
                      <<k_properties, List(<<
                         Obj(<< <<k_name, Str(<<"p","H">>)>>,
                                <<k_value, Str(tok_V)>>,
                                <<<<"u","n","i","t">>, Str(tok_U)>> >>) >>)>> >>) >>)>> >>) >>)>> >>)

\* a template without "examples": line 181 raises KeyError
TemplateNoExamples == Obj(<< <<k_name, Str(<<"p","l","a","i","n">>)>> >>)

\* a property with a second field whose name line 205 turns into "value"
TemplateKeyed ==
  Obj(<< <<k_examples, List(<<
            Obj(<< <<k_processes, List(<<
               Obj(<< <<k_materials, List(<< >>)>>,
                      <<k_properties, List(<<
                         Obj(<< <<k_name, Str(<<"T","m">>)>>,
                                <<k_value, Str(tok_V)>>,
                                <<<<"%","A","%","v","a","l","u","e">>, Str(<<"x">>)>> >>) >>)>> >>) >>)>> >>) >>)>> >>)

Uploads ==
  { [name |-> <<"f","u","l","l",".","j","s","o","n">>,  content |-> TemplateFull],
    [name |-> <<"k","e","y","e","d",".","j","s","o","n">>, content |-> TemplateKeyed],
    [name |-> <<"t","w","o",".","v","1",".","j","s","o","n">>, content |-> TemplateTwoProc],
    [name |-> <<"p","l","a","i","n",".","j","s","o","n">>, content |-> TemplateNoExamples] }

CategoryRow == << <<"R","e","s","i","n">>, <<"H","a","r","d","e","n","e","r">>, <<"P","r","o","p","e","r","t","y">>, <<"U","n","i","t">> >>

FormalRow == << <<"E","p","o","x","y">>, <<"A","m","i","n","e">>, <<"G","l","a","s","s"," ","t","r","a","n","s","i","t","i","o","n">>, <<"U","n","i","t">> >>

AbbrRow == << <<"a">>, <<"b">>, <<"v">>, <<"u">> >>

\* row 3 of the sheet: well formed, with a cell that is only "%", with a
\* bare name, with a token holding a space
PlaceholderRows ==
  { << tok_A, tok_B, tok_V, tok_U >>,
    << tok_A, <<"%">>, tok_V, tok_U >>,
    << <<"A">>, tok_B, tok_V, tok_U >>,
    << tok_A, tok_B, <<"%","V"," ","1","%">>, tok_U >> }

\* rows 5 onward: columns a, b (amounts), v (property value), u (unit)
DataRows ==
  { << <<"5">>,    <<" ","7"," ">>,  <<"1","2">>,   <<"M","P","a">> >>,
    << << >>,     <<"0">>,    << >>,     <<"M","P","a">> >>,
    << <<"N","O","N","E">>, <<"n","o","n","e">>, <<"N","o","n","e">>, << >> >>,
    << <<"0",".","0">>,  <<"5">>,    <<"0">>,    <<" ">> >>,
    << <<"5","%","w","%">>, <<"5">>,    <<" ","1","2"," ">>, <<"M","P","a">> >>,
    << << >>,     <<" ">>,    << >>,     << >> >> }

RECURSIVE SeqsUpTo(_, _)
SeqsUpTo(S, n) ==
  IF n = 0 THEN {<< >>}
  ELSE LET shorter == SeqsUpTo(S, n - 1)
       IN  shorter \cup {Append(q, x) : q \in shorter, x \in S}

Sheets ==
  { <<CategoryRow, FormalRow, ph, AbbrRow>> \o rows :
      ph \in PlaceholderRows, rows \in SeqsUpTo(DataRows, MaxRows) }

\* what an earlier run of the script may have left in output_dir
StaleFile == output_dir \o <<"/","o","l","d","_","0",".","j","s","o","n">>

StaleDoc == Obj(<< <<k_name, Str(<<"o","l","d">>)>> >>)

NoFiles == [p \in {} |-> StaleDoc]

-----------------------------------------------------------------------------
(* State                                                                    *)

Sessions == {1, 2}

VARIABLES
  json_file,        \* per session: the uploaded template file (name, content)
  excel_file,       \* per session: the uploaded sheet
  pc,               \* per session: the position of the script run
  json_template,    \* per session: the template loaded at line 143
  mapping,          \* per session: placeholder -> abbreviation, line 167
  idx,              \* per session: index of the next data row
  generated_files,  \* per session: paths written so far, line 212
  zip_buffer,       \* per session: entries <<name, content>> of the archive
  download,         \* per session: the download button is offered, line 225
  dir_exists,       \* the directory output_dir exists
  files             \* the files of output_dir: path -> document

vars == <<json_file, excel_file, pc, json_template, mapping, idx,
          generated_files, zip_buffer, download, dir_exists, files>>

inputs == <<json_file, excel_file>>

NoMapping == [lab \in {} |-> << >>]

raw(s) == excel_file[s]

NRows(s) == Len(data(raw(s)))

base(s) == json_filename(json_file[s].name)

-----------------------------------------------------------------------------
(* The script, one run per session                                          *)

\* lines 63-64: if os.path.exists(output_dir): shutil.rmtree(output_dir)
RmTree(s) ==
  /\ pc[s] = "start"
  /\ pc' = [pc EXCEPT ![s] = "makedirs"]
  /\ dir_exists' = FALSE
  /\ files' = NoFiles
  /\ UNCHANGED <<inputs, json_template, mapping, idx, generated_files,
                 zip_buffer, download>>

\* line 65: os.makedirs(output_dir, exist_ok=True)
MakeDirs(s) ==
  /\ pc[s] = "makedirs"
  /\ pc' = [pc EXCEPT ![s] = "load"]
  /\ dir_exists' = TRUE
  /\ UNCHANGED <<inputs, json_template, mapping, idx, generated_files,
                 zip_buffer, download, files>>

\* lines 141-157: load the template, read and validate the sheet; st.stop()
\* ends the run when validation fails
LoadValidate(s) ==
  /\ pc[s] = "load"
  /\ json_template' = [json_template EXCEPT ![s] = json_file[s].content]
  /\ pc' = [pc EXCEPT ![s] = IF validate_excel(raw(s)) THEN "extract" ELSE "stopped"]
  /\ UNCHANGED <<inputs, mapping, idx, generated_files, zip_buffer, download,
                 dir_exists, files>>

\* lines 160-174
Extract(s) ==
  /\ pc[s] = "extract"
  /\ mapping' = [mapping EXCEPT ![s] = BuildMapping(raw(s))]
  /\ idx' = [idx EXCEPT ![s] = 0]
  /\ generated_files' = [generated_files EXCEPT ![s] = << >>]
  /\ pc' = [pc EXCEPT ![s] = "loop"]
  /\ UNCHANGED <<inputs, json_template, zip_buffer, download, dir_exists, files>>

\* lines 176-215, one iteration: build the document of row idx and write it.
\* An exception (a template without the path to the materials, a failing
\* open or write) is caught at line 232
ProcessRow(s) ==
  /\ pc[s] = "loop"
  /\ idx[s] < NRows(s)
  /\ \E io_ok \in BOOLEAN :
       IF RowOK(json_template[s]) /\ dir_exists /\ io_ok
         THEN LET row  == data(raw(s))[idx[s] + 1]
                  d    == RowDoc(json_template[s], raw(s), row, mapping[s])
                  path == output_path(base(s), idx[s])
              IN  /\ files' = (path :> d) @@ files
                  /\ generated_files' =
                       [generated_files EXCEPT ![s] = Append(@, path)]
                  /\ json_template' =
                       [json_template EXCEPT ![s] =
                          TemplateAfterRow(@, raw(s), row, mapping[s])]
                  /\ idx' = [idx EXCEPT ![s] = @ + 1]
                  /\ pc' = [pc EXCEPT ![s] =
                              IF idx[s] + 1 = NRows(s) THEN "zip" ELSE "loop"]
         ELSE /\ pc' = [pc EXCEPT ![s] = "error"]
              /\ UNCHANGED <<json_template, idx, generated_files, files>>
  /\ UNCHANGED <<inputs, mapping, zip_buffer, download, dir_exists>>

\* lines 219-221, one file: zipf.write(file, os.path.basename(file)); a file
\* that is no longer there raises, caught at line 232
ZipWrite(s) ==
  /\ pc[s] = "zip"
  /\ Len(zip_buffer[s]) < Len(generated_files[s])
  /\ LET file == generated_files[s][Len(zip_buffer[s]) + 1]
     IN  IF file \in DOMAIN files
           THEN /\ zip_buffer' =
                     [zip_buffer EXCEPT ![s] = Append(@, <<basename(file), files[file]>>)]
                /\ pc' = pc
           ELSE /\ pc' = [pc EXCEPT ![s] = "error"]
                /\ zip_buffer' = zip_buffer
  /\ UNCHANGED <<inputs, json_template, mapping, idx, generated_files,
                 download, dir_exists, files>>

\* lines 222-230: the archive is offered for download
OfferDownload(s) ==
  /\ pc[s] = "zip"
  /\ Len(zip_buffer[s]) = Len(generated_files[s])
  /\ download' = [download EXCEPT ![s] = TRUE]
  /\ pc' = [pc EXCEPT ![s] = "done"]
  /\ UNCHANGED <<inputs, json_template, mapping, idx, generated_files,
                 zip_buffer, dir_exists, files>>

Run(s) ==
  \/ RmTree(s)
  \/ MakeDirs(s)
  \/ LoadValidate(s)
  \/ Extract(s)
  \/ ProcessRow(s)
  \/ ZipWrite(s)
  \/ OfferDownload(s)

TypeInit ==
  /\ json_template = [s \in Sessions |-> Null]
  /\ mapping = [s \in Sessions |-> NoMapping]
  /\ idx = [s \in Sessions |-> 0]
  /\ generated_files = [s \in Sessions |-> << >>]
  /\ zip_buffer = [s \in Sessions |-> << >>]
  /\ download = [s \in Sessions |-> FALSE]

\* one session runs the script; the directory may hold what an earlier run left
Init ==
  /\ TypeInit
  /\ \E u \in Uploads, x \in Sheets :
       /\ json_file = [s \in Sessions |-> u]
       /\ excel_file = [s \in Sessions |-> x]
  /\ pc = [s \in Sessions |-> IF s = 1 THEN "start" ELSE "off"]
  /\ \/ dir_exists = FALSE /\ files = NoFiles
     \/ dir_exists = TRUE /\ files = NoFiles
     \/ dir_exists = TRUE /\ files = (StaleFile :> StaleDoc)

Next == \E s \in Sessions : Run(s)

Spec == Init /\ [][Next]_vars

\* two sessions run the script at the same time on the same server and so
\* on the same output_dir
ConcUploads ==
  { [name |-> <<"f","u","l","l",".","j","s","o","n">>,  content |-> TemplateFull],
    [name |-> <<"t","w","o",".","v","1",".","j","s","o","n">>, content |-> TemplateTwoProc] }

ConcRow(s) ==
  IF s = 1 THEN << <<"5">>, <<" ","7"," ">>, <<"1","2">>, <<"M","P","a">> >>
           ELSE << <<"0",".","0">>, <<"5">>, <<"0">>, <<" ">> >>

ConcSheets(s) ==
  { <<CategoryRow, FormalRow, << tok_A, tok_B, tok_V, tok_U >>, AbbrRow>>
      \o [i \in 1..n |-> ConcRow(s)] : n \in 1..MaxRows }

InitConc ==
  /\ TypeInit
  /\ json_file \in [Sessions -> ConcUploads]
  /\ \E x1 \in ConcSheets(1), x2 \in ConcSheets(2) :
       excel_file = [s \in Sessions |-> IF s = 1 THEN x1 ELSE x2]
  /\ pc = [s \in Sessions |-> "start"]
  /\ dir_exists = TRUE
  /\ files = NoFiles

SpecConc == InitConc /\ [][Next]_vars

-----------------------------------------------------------------------------
(* Vocabulary of the properties                                             *)

\* the data row (1-based k) behind the k-th generated file of session s
RowOf(s, k) == data(raw(s))[k]

\* the document that the uploaded template, the sheet's mapping and row k give
OwnDoc(s, k) ==
  RowDoc(json_file[s].content, raw(s), RowOf(s, k), BuildMapping(raw(s)))

\* the k-th file of session s is in output_dir
Written(s, k) == k \in DOMAIN generated_files[s] /\ generated_files[s][k] \in DOMAIN files

OutDoc(s, k) == files[generated_files[s][k]]

\* the cell of a row for a token of the mapping
Cell(s, k, tok) == RowCell(raw(s), RowOf(s, k), BuildMapping(raw(s))[tok], << >>)

\* Missing: blank, whitespace-only, or "none" in any letter case
Missing(cell) == lower(strip(cell)) \in {<< >>, <<"n","o","n","e">>}

MappedToken(s, x) == IsStr(x) /\ x.v \in DOMAIN BuildMapping(raw(s))

\* the materials list of the first process of a document
FirstMaterials(d) == Get(Processes(d).v[1], k_materials).v

\* the objects whose "properties" the script fills: the processes of the
\* first example, then the root-level materials
Holders(d) ==
  Processes(d).v \o
    (IF HasKey(d, k_materials) /\ IsList(Get(d, k_materials))
       THEN Get(d, k_materials).v ELSE << >>)

HasProps(o) == IsObj(o) /\ HasKey(o, k_properties) /\ IsList(Get(o, k_properties))

Props(o) == Get(o, k_properties).v

\* a property whose "value" is a mapped token and whose cell is Missing
ValueMissing(s, k, prop) ==
  /\ IsObj(prop) /\ HasKey(prop, k_value)
  /\ MappedToken(s, Get(prop, k_value))
  /\ Missing(Cell(s, k, Get(prop, k_value).v))

\* the materials of a list that carry a given name
Named(ms, name) == {i \in DOMAIN ms : HasKey(ms[i], k_name) /\ Get(ms[i], k_name) = name}

\* no field name of the document holds a match of the pattern of line 205,
\* so that the deletion renames no field
RECURSIVE KeysPlain(_)
KeysPlain(d) ==
  IF IsObj(d)
    THEN \A i \in DOMAIN d.v : re_sub(d.v[i][1]) = d.v[i][1] /\ KeysPlain(d.v[i][2])
  ELSE IF IsList(d) THEN \A i \in DOMAIN d.v : KeysPlain(d.v[i])
  ELSE TRUE

-----------------------------------------------------------------------------
(* Properties                                                               *)

\* C1: no written per-row document contains a substring matching
\* %[A-Za-z0-9_]+%
C1_NoTokenInOutput ==
  \A s \in Sessions : \A k \in DOMAIN generated_files[s] :
    Written(s, k) => ~ContainsToken(dumps(OutDoc(s, k)))

\* what C2 expects at a node tn of the template and the node at the same
\* place of the output
RECURSIVE TokensReplaced(_, _, _, _)
TokensReplaced(s, k, tn, on) ==
  IF MappedToken(s, tn)
    THEN on = Str(IF Missing(Cell(s, k, tn.v)) THEN << >> ELSE Cell(s, k, tn.v))
  ELSE IF IsObj(tn)
    THEN IsObj(on) =>
           \A i \in DOMAIN tn.v :
             HasKey(on, tn.v[i][1]) =>
               TokensReplaced(s, k, tn.v[i][2], Get(on, tn.v[i][1]))
  ELSE IF IsList(tn)
    THEN (IsList(on) /\ Len(on.v) = Len(tn.v)) =>
           \A i \in DOMAIN tn.v : TokensReplaced(s, k, tn.v[i], on.v[i])
  ELSE TRUE

\* C2: every template string that is exactly a mapped token is replaced in the
\* output by the row's cell (by "" when the cell is Missing), at any depth,
\* under any field name, inside any list
C2_TokensReplacedEverywhere ==
  \A s \in Sessions : \A k \in DOMAIN generated_files[s] :
    Written(s, k) => TokensReplaced(s, k, json_file[s].content, OutDoc(s, k))

C4_MaterialRemovedIffMissingOrZero ==
  \A s \in Sessions : \A k \in DOMAIN generated_files[s] :
    Written(s, k) =>
      LET tm == FirstMaterials(json_file[s].content)
          om == FirstMaterials(OutDoc(s, k))
          mapped == {i \in DOMAIN tm : HasKey(tm[i], k_amount)
                                         /\ MappedToken(s, Get(tm[i], k_amount))}
          cell(i) == Cell(s, k, Get(tm[i], k_amount).v)
          gone(i) == Missing(cell(i)) \/ strip(cell(i)) \in {<<"0">>, <<"0",".","0">>}
      IN  /\ \A i \in mapped :
               IF gone(i)
                 THEN Named(om, Get(tm[i], k_name)) = {}
                 ELSE \E j \in Named(om, Get(tm[i], k_name)) :
                        /\ HasKey(om[j], k_amount)
                        /\ Get(om[j], k_amount) = Str(strip(cell(i)))
          /\ \A i1, i2 \in mapped :
               i1 < i2 =>
                 \A j1 \in Named(om, Get(tm[i1], k_name)) :
                   \A j2 \in Named(om, Get(tm[i2], k_name)) : j1 < j2

\* C5: an element without "amount" and without "value", of the first process's
\* materials or of a filled properties list, is present in the output
C5_NoTriggerNeverDeleted ==
  \A s \in Sessions : \A k \in DOMAIN generated_files[s] :
    Written(s, k) =>
      LET tpl == json_file[s].content
          plain(o) == IsObj(o) /\ ~HasKey(o, k_amount) /\ ~HasKey(o, k_value)
      IN  /\ \A i \in DOMAIN FirstMaterials(tpl) :
               plain(FirstMaterials(tpl)[i]) =>
                 Named(FirstMaterials(OutDoc(s, k)),
                       Get(FirstMaterials(tpl)[i], k_name)) # {}
          /\ \A h \in DOMAIN Holders(tpl) :
               HasProps(Holders(tpl)[h]) =>
                 \A e \in DOMAIN Props(Holders(tpl)[h]) :
                   plain(Props(Holders(tpl)[h])[e]) =>
                     Named(Props(Holders(OutDoc(s, k))[h]),
                           Get(Props(Holders(tpl)[h])[e], k_name)) # {}

\* what C6 expects of a node tn of the template and the node at the same
\* place of the output: a scalar that is not exactly a token is unchanged
RECURSIVE ScalarsUnchanged(_, _)
ScalarsUnchanged(tn, on) ==
  IF IsObj(tn)
    THEN IsObj(on) =>
           \A i \in DOMAIN tn.v :
             HasKey(on, tn.v[i][1]) => ScalarsUnchanged(tn.v[i][2], Get(on, tn.v[i][1]))
  ELSE IF IsList(tn)
    THEN (IsList(on) /\ Len(on.v) = Len(tn.v)) =>
           \A i \in DOMAIN tn.v : ScalarsUnchanged(tn.v[i], on.v[i])
  ELSE (IsStr(tn) /\ IsToken(tn.v)) \/ on = tn

\* C6: non-token scalars of the template are unchanged in every output, and a
\* substituted cell appears exactly as it was in the row
C6_OtherScalarsUnchanged ==
  \A s \in Sessions : \A k \in DOMAIN generated_files[s] :
    Written(s, k) =>
      /\ ScalarsUnchanged(json_file[s].content, OutDoc(s, k))
      /\ LET tm == FirstMaterials(json_file[s].content)
             om == FirstMaterials(OutDoc(s, k))
         IN  \A i \in DOMAIN tm :
               (HasKey(tm[i], k_amount) /\ MappedToken(s, Get(tm[i], k_amount))) =>
                 \A j \in Named(om, Get(tm[i], k_name)) :
                   Get(om[j], k_amount) = Str(Cell(s, k, Get(tm[i], k_amount).v))

\* C7: a placeholder-row cell that is not exactly a token after trimming stops
\* the run before any row is processed, any document written or any archive
\* offered
C7_BadPlaceholderStops ==
  \A s \in Sessions :
    (pc[s] # "off" /\ \E c \in Cols(raw(s)) : ~IsToken(strip(raw(s)[3][c]))) =>
      /\ pc[s] \notin {"extract", "loop", "zip", "done"}
      /\ generated_files[s] = << >>
      /\ ~download[s]

\* the name <template-base-name>_<i>.json, for i < 10
DocName(s, i) ==
  SubSeq(json_file[s].name, 1, Len(json_file[s].name) - 5)
    \o <<"_", DigitChars[i + 1], ".", "j", "s", "o", "n">>

\* C8: a completed run over N rows has written documents base_0.json ..
\* base_(N-1).json, row i giving document i, and its archive lists exactly
\* these N files by bare name; the archive is built only after the last row,
\* and a run that ended in an error offers no archive
C8_BatchOutput ==
  \A s \in Sessions :
    /\ pc[s] = "done" =>
         /\ download[s]
         /\ Len(generated_files[s]) = NRows(s)
         /\ Len(zip_buffer[s]) = NRows(s)
         /\ \A i \in 0..(NRows(s) - 1) :
              /\ generated_files[s][i + 1] = output_dir \o <<"/">> \o DocName(s, i)
              /\ Written(s, i + 1)
              /\ OutDoc(s, i + 1) = OwnDoc(s, i + 1)
              /\ zip_buffer[s][i + 1] = <<DocName(s, i), OwnDoc(s, i + 1)>>
    /\ zip_buffer[s] # << >> => idx[s] = NRows(s)
    /\ download[s] => pc[s] = "done"
    /\ pc[s] = "error" => ~download[s]

\* a run over two rows has completed
C8_Witness ==
  \E s \in Sessions : pc[s] = "done" /\ NRows(s) = 2 /\ Len(zip_buffer[s]) = 2

\* C9: while rows are processed the loaded template and the mapping stay what
\* the upload gave, and the document of each row is the one the uploaded
\* template, the mapping and that row alone determine
C9_RowsIndependent ==
  \A s \in Sessions :
    pc[s] \in {"loop", "zip", "done", "error"} =>
      /\ json_template[s] = json_file[s].content
      /\ mapping[s] = BuildMapping(raw(s))
      /\ \A k \in DOMAIN generated_files[s] :
           Written(s, k) /\ OutDoc(s, k) = OwnDoc(s, k)

\* two rows are done, the first lost a material that the second has
C9_Witness ==
  \E s \in Sessions :
    /\ Len(generated_files[s]) = 2
    /\ Written(s, 1) /\ Written(s, 2)
    /\ Len(FirstMaterials(OutDoc(s, 1))) < Len(FirstMaterials(OutDoc(s, 2)))

\* C10: a file a run has written and not yet archived is still there with the
\* content the run gave it, and a finished run's archive holds the documents
\* of its own template and rows
C10_RunsDoNotInterfere ==
  \A s \in Sessions :
    /\ pc[s] \in {"loop", "zip"} =>
         \A k \in DOMAIN generated_files[s] :
           k > Len(zip_buffer[s]) => Written(s, k) /\ OutDoc(s, k) = OwnDoc(s, k)
    /\ pc[s] = "done" =>
         \A k \in DOMAIN zip_buffer[s] : zip_buffer[s][k][2] = OwnDoc(s, k)

====
